---- MODULE Spec2Model ----
(***************************************************************************)
(* Multibrand Token Exporter: the color resolver (resolve.ts), the tree    *)
(* builder and sorter (core/utils.ts), and the export orchestration        *)
(* (core/export.ts, code.ts).                                              *)
(*                                                                         *)
(* Strings on which the code works character by character (names, hex      *)
(* values, provenance) are sequences of one-character strings.  Mode,      *)
(* variable and collection identifiers are opaque and stay TLA+ strings.   *)
(***************************************************************************)
EXTENDS Integers, Sequences, FiniteSets, TLC

VARIABLES
  variables,     \* the data source: variable id -> Variable, read-only
  localOrder,    \* the order in which getLocalVariablesAsync lists the ids
  collation,     \* which order the host's localeCompare implements
  call,          \* the arguments of the outermost resolveColor call
  pc,            \* position inside resolveColor
  frame,         \* arguments of the resolveColor activation now running
  primitiveVar,  \* local of resolveColor: id of the dereferenced variable
  matchingMode,  \* local of resolveColor: <<>> or <<[modeId, modeName]>>
  ret,           \* value the running activation returns
  stack,         \* suspended activations awaiting a nested resolveColor
  result,        \* <<>> or <<ColorResult>> of the outermost call
  consulted,     \* which lookups the outermost call has made so far
  counts,        \* how often the outermost call has dereferenced and re-entered
  rootArray,     \* the forest insertTokenIntoTree builds
  sortedTokens,  \* <<>> or <<forest>>: result of sortTokensAlphabetically
  resorted,      \* <<>> or <<forest>>: result of sorting sortedTokens again
  config,        \* the ExportConfig of the export request being served
  epc,           \* position inside handleExportRequest / exportTokens
  currentLang,   \* code.ts: language of the error notifications
  tokenVars,     \* validateAndGetCollections: variables of the token collection
  varIdx,        \* processVariables: index of the variable being processed
  brandIdx,      \* createTokenObject: index of the brand being resolved
  tokenObj,      \* createTokenObject: <<>> or <<the TokenObject being built>>
  brandResult,   \* resolveBrandColors: the brand's results so far
  initPending,   \* handleInitRequest calls awaiting the collections
  initsSeen,     \* "init" messages received so far
  posted,        \* messages sent with figma.ui.postMessage, in order
  notifications, \* strings shown with figma.notify, in order
  parked         \* the locals of the export run that is not running now

hostVars == <<variables, localOrder, collation>>
resolverVars == <<call, pc, frame, primitiveVar, matchingMode, ret, stack,
                  result, consulted, counts>>
treeVars == <<rootArray, sortedTokens, resorted>>
exportVars == <<config, epc, currentLang, tokenVars, varIdx, brandIdx, tokenObj,
                brandResult, initPending, initsSeen, posted, notifications>>
vars == <<hostVars, resolverVars, treeVars, exportVars, parked>>

----------------------------------------------------------------------------
(* Bounds of the model *)

\* deepest nesting of resolveColor activations the model follows
MaxDepth == 3
\* most entries of one variable's valuesByMode
MaxModesPerVar == 2

----------------------------------------------------------------------------
(* Character strings *)

UpperChars == <<"A","B","C","D","E","F","G","H","I","J","K","L","M",
                "N","O","P","Q","R","S","T","U","V","W","X","Y","Z">>
LowerChars == <<"a","b","c","d","e","f","g","h","i","j","k","l","m",
                "n","o","p","q","r","s","t","u","v","w","x","y","z">>
DigitChars == <<"0","1","2","3","4","5","6","7","8","9">>

IndexIn(c, chars) ==
  IF \E i \in 1..Len(chars) : chars[i] = c
    THEN CHOOSE i \in 1..Len(chars) : chars[i] = c
    ELSE 0

toLowerCaseChar(c) ==
  IF IndexIn(c, UpperChars) > 0 THEN LowerChars[IndexIn(c, UpperChars)] ELSE c

toUpperCaseChar(c) ==
  IF IndexIn(c, LowerChars) > 0 THEN UpperChars[IndexIn(c, LowerChars)] ELSE c

toLowerCase(s) == [i \in 1..Len(s) |-> toLowerCaseChar(s[i])]

toUpperCase(s) == [i \in 1..Len(s) |-> toUpperCaseChar(s[i])]

\* String.prototype.includes
includes(s, sub) ==
  \E i \in 0..(Len(s) - Len(sub)) : SubSeq(s, i + 1, i + Len(sub)) = sub

S_Raw == <<"R","a","w">>
S_Unresolved == <<"U","n","r","e","s","o","l","v","e","d">>
S_fallback == <<"f","a","l","l","b","a","c","k">>
S_light == <<"l","i","g","h","t">>
S_dark == <<"d","a","r","k">>
\* " -> " stands for the arrow of line 131, a single non-ASCII character
S_Arrow == <<" ","->"," ">>
HexMagenta == <<"#","F","F","0","0","F","F">>
HexBlack == <<"#","0","0","0","0","0","0">>

----------------------------------------------------------------------------
(* Color encoding, core/utils.ts *)

\* Number.prototype.toString(16) of a natural number
RECURSIVE toString16(_)
toString16(n) ==
  LET digits == DigitChars \o <<"a","b","c","d","e","f">>
  IN  IF n < 16 THEN <<digits[n + 1]>>
      ELSE toString16(n \div 16) \o <<digits[(n % 16) + 1]>>

\* toHex inside rgbaToHex.  A channel holds its value in halves (0, 1, 2 for
\* 0, 0.5, 1), so Math.round(v * 255) is (h * 255 + 1) \div 2.
toHex(h) ==
  LET hex == toString16((h * 255 + 1) \div 2)
  IN  IF Len(hex) = 1 THEN <<"0">> \o hex ELSE hex

rgbaToHex(c) ==
  LET r == toHex(c.r)
      g == toHex(c.g)
      b == toHex(c.b)
  IN  IF "a" \in DOMAIN c /\ c.a < 2
        THEN toUpperCase(<<"#">> \o r \o g \o b \o toHex(c.a))
        ELSE toUpperCase(<<"#">> \o r \o g \o b)

\* the value JavaScript reads from a key an object does not have
Undefined == [type |-> "undefined"]

parseColorValue(value) ==
  IF value # Undefined /\ "r" \in DOMAIN value
    THEN rgbaToHex(value)
    ELSE HexBlack

----------------------------------------------------------------------------
(* The data source *)

Mode(id, name) == [modeId |-> id, name |-> name]

\* getLocalVariableCollectionsAsync: the file's collections, in order
Collections ==
  << [id |-> "c1", name |-> <<"T","o","k","e","n","s">>,
      modes |-> << Mode("m1", <<"L","i","g","h","t">>),
                   Mode("m2", <<"D","a","r","k">>) >>],
     [id |-> "c2", name |-> <<"P","r","i","m","s">>,
      modes |-> << Mode("n1", <<"M","i","d"," ","D","A","R","K">>),
                   Mode("n2", <<"d","a","r","k">>) >>] >>

CollectionIds == {Collections[i].id : i \in 1..Len(Collections)}

\* getVariableCollectionByIdAsync: <<>> stands for null
getVariableCollectionById(id) ==
  IF id \in CollectionIds
    THEN <<Collections[CHOOSE i \in 1..Len(Collections) : Collections[i].id = id]>>
    ELSE <<>>

ModeIdsOf(collId) ==
  LET c == getVariableCollectionById(collId)
  IN  IF c = <<>> THEN {} ELSE {c[1].modes[i].modeId : i \in 1..Len(c[1].modes)}

Alias(id) == [type |-> "VARIABLE_ALIAS", id |-> id]

\* the raw color a variable holds at a mode, one per (variable, mode)
RawColor(varId, modeId) ==
  CASE modeId = "m1" -> [r |-> 2, g |-> 0, b |-> 0, a |-> 2]
    [] modeId = "m2" -> [r |-> 0, g |-> 2, b |-> 0]
    [] modeId = "n1" -> [r |-> 0, g |-> 0, b |-> 2, a |-> 1]
    [] OTHER         -> [r |-> 1, g |-> 1, b |-> 1, a |-> 2]

\* valuesByMode[modeId]
ValueAt(variable, modeId) ==
  LET vbm == variable.valuesByMode
  IN  IF \E i \in 1..Len(vbm) : vbm[i].modeId = modeId
        THEN vbm[CHOOSE i \in 1..Len(vbm) : vbm[i].modeId = modeId].value
        ELSE Undefined

\* Object.keys(valuesByMode)
ObjectKeys(variable) ==
  [i \in 1..Len(variable.valuesByMode) |-> variable.valuesByMode[i].modeId]

\* getVariableByIdAsync: <<>> stands for null
getVariableById(id) ==
  IF id \in DOMAIN variables THEN <<variables[id]>> ELSE <<>>

----------------------------------------------------------------------------
(* resolve.ts: helpers *)

isVariableAlias(value) ==
  value # Undefined /\ "type" \in DOMAIN value /\ value.type = "VARIABLE_ALIAS"

ColorResult(hex, primitiveName) == [hex |-> hex, primitiveName |-> primitiveName]

\* faulty variant: the fallback color of parseColorValue used for the sentinel
createFallbackResultBlack(primitiveName) == ColorResult(HexBlack, primitiveName)

createFallbackResult(primitiveName) == ColorResult(HexMagenta, primitiveName)

\* <<>> stands for null; modeName = <<>> stands for an omitted modeName
resolveVariableValue(variable, modeId, modeName) ==
  LET value == ValueAt(variable, modeId)
      suffix == IF modeName # <<>> THEN <<" ","(">> \o modeName \o <<")">> ELSE <<>>
  IN  IF value = Undefined THEN <<>>
      ELSE IF ~isVariableAlias(value)
        THEN <<ColorResult(parseColorValue(value), variable.name \o suffix)>>
        ELSE <<>>

\* Array.prototype.find over the collection's modes
FirstMatch(modes, brandModeType) ==
  LET hits == {i \in 1..Len(modes) : includes(toLowerCase(modes[i].name), brandModeType)}
  IN  IF hits = {} THEN <<>>
      ELSE <<modes[CHOOSE i \in hits : \A j \in hits : i <= j]>>

\* faulty variant: the mode name compared without toLowerCase
findMatchingModeCaseSensitive(variable, brandModeType) ==
  IF variable.variableCollectionId = "" THEN <<>>
  ELSE LET collection == getVariableCollectionById(variable.variableCollectionId)
           modes == IF collection = <<>> THEN <<>> ELSE collection[1].modes
           hits == {i \in 1..Len(modes) : includes(modes[i].name, brandModeType)}
       IN  IF hits = {} THEN <<>>
           ELSE LET m == modes[CHOOSE i \in hits : \A j \in hits : i <= j]
                IN  <<[modeId |-> m.modeId, modeName |-> m.name]>>

findMatchingMode(variable, brandModeType) ==
  IF variable.variableCollectionId = "" THEN <<>>
  ELSE LET collection == getVariableCollectionById(variable.variableCollectionId)
       IN  IF collection = <<>> THEN <<>>
           ELSE LET matching == FirstMatch(collection[1].modes, brandModeType)
                IN  IF matching = <<>> THEN <<>>
                    ELSE <<[modeId |-> matching[1].modeId,
                            modeName |-> matching[1].name]>>

----------------------------------------------------------------------------
(* resolve.ts: resolveColor, one action per stretch between awaits *)

Frame(v, m, pm, bmt) ==
  [variable |-> v, modeId |-> m, primitiveModeId |-> pm, brandModeType |-> bmt]

NoFrame == Frame("", "", "", <<>>)

\* no getVariableByIdAsync call (line 104) and no nested resolveColor call
\* (line 128) made yet
NoCounts == [derefs |-> 0, reentries |-> 0, steps |-> 0]

\* one more stretch of resolveColor has run
Stepped(c) == [c EXCEPT !.steps = @ + 1]

\* the export configuration the UI sends (ExportConfig, export.ts:19-28)
Config(tokenCollectionId, primitiveCollectionId, brands, lang) ==
  [tokenCollectionId |-> tokenCollectionId,
   primitiveCollectionId |-> primitiveCollectionId,
   brands |-> brands, lang |-> lang]

NoConfig == Config("", "", <<>>, "")

\* lines 92-100: read the value, return it when it is no alias
Enter ==
  /\ pc = "enter"
  /\ LET value == ValueAt(variables[frame.variable], frame.modeId)
     IN  IF ~isVariableAlias(value)
           THEN /\ ret' = <<ColorResult(parseColorValue(value), S_Raw)>>
                /\ pc' = "return"
           ELSE /\ pc' = "deref"
                /\ UNCHANGED ret
  /\ counts' = Stepped(counts)
  /\ UNCHANGED <<call, frame, primitiveVar, matchingMode, stack, result, consulted>>
  /\ UNCHANGED <<hostVars, parked, treeVars, exportVars>>

\* lines 103-108: dereference the alias
Deref ==
  /\ pc = "deref"
  /\ LET aliasId == ValueAt(variables[frame.variable], frame.modeId).id
         found == getVariableById(aliasId)
     IN  IF found = <<>>
           THEN /\ ret' = <<createFallbackResult(S_Unresolved)>>
                /\ pc' = "return"
                /\ UNCHANGED primitiveVar
           ELSE /\ primitiveVar' = found[1].id
                /\ pc' = "direct"
                /\ UNCHANGED ret
  /\ consulted' = consulted \cup {"getVariableById"}
  /\ counts' = Stepped([counts EXCEPT !.derefs = @ + 1])
  /\ UNCHANGED <<call, frame, matchingMode, stack, result>>
  /\ UNCHANGED <<hostVars, parked, treeVars, exportVars>>

\* faulty variant: the mode search made without the test of line 118
DirectAlwaysSearch ==
  /\ pc = "direct"
  /\ LET directResult == resolveVariableValue(variables[primitiveVar],
                                              frame.primitiveModeId, <<>>)
     IN  IF directResult # <<>>
           THEN /\ ret' = directResult
                /\ pc' = "return"
           ELSE /\ pc' = "search"
                /\ UNCHANGED ret
  /\ consulted' = consulted \cup {"direct"}
  /\ counts' = Stepped(counts)
  /\ UNCHANGED <<call, frame, primitiveVar, matchingMode, stack, result>>
  /\ UNCHANGED <<hostVars, parked, treeVars, exportVars>>

\* lines 111-117: the primitive at primitiveModeId
Direct ==
  /\ pc = "direct"
  /\ LET directResult == resolveVariableValue(variables[primitiveVar],
                                              frame.primitiveModeId, <<>>)
     IN  IF directResult # <<>>
           THEN /\ ret' = directResult
                /\ pc' = "return"
           ELSE /\ pc' = IF frame.brandModeType # <<>> THEN "search" ELSE "fallback"
                /\ UNCHANGED ret
  /\ consulted' = consulted \cup {"direct"}
  /\ counts' = Stepped(counts)
  /\ UNCHANGED <<call, frame, primitiveVar, matchingMode, stack, result>>
  /\ UNCHANGED <<hostVars, parked, treeVars, exportVars>>

\* lines 118-119: search the primitive's collection for a light/dark mode
Search ==
  /\ pc = "search"
  /\ matchingMode' = findMatchingMode(variables[primitiveVar], frame.brandModeType)
  /\ pc' = IF matchingMode' # <<>> THEN "mode" ELSE "fallback"
  /\ consulted' = consulted \cup {"search"}
  /\ counts' = Stepped(counts)
  /\ UNCHANGED <<call, frame, primitiveVar, ret, stack, result>>
  /\ UNCHANGED <<hostVars, parked, treeVars, exportVars>>

\* variant with a visited check, which the code does not have: the re-entry
\* stops once an activation repeats
ModeValueVisited ==
  /\ pc = "mode"
  /\ LET mm == matchingMode[1]
         modeResult == resolveVariableValue(variables[primitiveVar], mm.modeId, mm.modeName)
         modeValue == ValueAt(variables[primitiveVar], mm.modeId)
         next == Frame(primitiveVar, mm.modeId, mm.modeId, frame.brandModeType)
     IN  IF modeResult # <<>>
           THEN /\ ret' = modeResult
                /\ pc' = "return"
                /\ counts' = Stepped(counts)
                /\ UNCHANGED <<frame, stack, primitiveVar, matchingMode>>
           ELSE IF isVariableAlias(modeValue)
             THEN IF \E i \in 1..Len(stack) : stack[i].frame = next
                    THEN /\ ret' = <<createFallbackResult(S_Unresolved)>>
                         /\ pc' = "return"
                         /\ counts' = Stepped(counts)
                         /\ UNCHANGED <<frame, stack, primitiveVar, matchingMode>>
                    ELSE /\ Len(stack) < MaxDepth
                         /\ stack' = Append(stack, [frame |-> frame,
                                                    primitiveVar |-> primitiveVar])
                         /\ frame' = next
                         /\ pc' = "enter"
                         /\ primitiveVar' = ""
                         /\ matchingMode' = <<>>
                         /\ counts' = Stepped([counts EXCEPT !.reentries = @ + 1])
                         /\ UNCHANGED ret
             ELSE /\ pc' = "fallback"
                  /\ counts' = Stepped(counts)
                  /\ UNCHANGED <<frame, stack, primitiveVar, matchingMode, ret>>
  /\ consulted' = consulted \cup {"mode"}
  /\ UNCHANGED <<call, result>>
  /\ UNCHANGED <<hostVars, parked, treeVars, exportVars>>

\* lines 120-133: the primitive at the matching mode; an alias there re-enters
\* resolveColor with the matching mode as both modes
ModeValue ==
  /\ pc = "mode"
  /\ LET mm == matchingMode[1]
         modeResult == resolveVariableValue(variables[primitiveVar], mm.modeId, mm.modeName)
         modeValue == ValueAt(variables[primitiveVar], mm.modeId)
     IN  IF modeResult # <<>>
           THEN /\ ret' = modeResult
                /\ pc' = "return"
                /\ counts' = Stepped(counts)
                /\ UNCHANGED <<frame, stack, primitiveVar, matchingMode>>
           ELSE IF isVariableAlias(modeValue)
             THEN /\ Len(stack) < MaxDepth
                  /\ stack' = Append(stack, [frame |-> frame, primitiveVar |-> primitiveVar])
                  /\ frame' = Frame(primitiveVar, mm.modeId, mm.modeId, frame.brandModeType)
                  /\ pc' = "enter"
                  /\ primitiveVar' = ""
                  /\ matchingMode' = <<>>
                  /\ counts' = Stepped([counts EXCEPT !.reentries = @ + 1])
                  /\ UNCHANGED ret
             ELSE /\ pc' = "fallback"
                  /\ counts' = Stepped(counts)
                  /\ UNCHANGED <<frame, stack, primitiveVar, matchingMode, ret>>
  /\ consulted' = consulted \cup {"mode"}
  /\ UNCHANGED <<call, result>>
  /\ UNCHANGED <<hostVars, parked, treeVars, exportVars>>

\* faulty variant: the last key of the value map taken instead of the first
FallbackLastMode ==
  /\ pc = "fallback"
  /\ LET prim == variables[primitiveVar]
         availableModes == ObjectKeys(prim)
         fallbackResult == IF Len(availableModes) > 0
                             THEN resolveVariableValue(prim,
                                    availableModes[Len(availableModes)], S_fallback)
                             ELSE <<>>
     IN  ret' = IF fallbackResult # <<>>
                  THEN fallbackResult
                  ELSE <<createFallbackResult(S_Unresolved \o <<":"," ">> \o prim.name)>>
  /\ pc' = "return"
  /\ consulted' = consulted \cup {"fallback"}
  /\ counts' = Stepped(counts)
  /\ UNCHANGED <<call, frame, primitiveVar, matchingMode, stack, result>>
  /\ UNCHANGED <<hostVars, parked, treeVars, exportVars>>

\* lines 138-146: the first mode of the primitive's value map, else the sentinel
Fallback ==
  /\ pc = "fallback"
  /\ LET prim == variables[primitiveVar]
         availableModes == ObjectKeys(prim)
         fallbackResult == IF Len(availableModes) > 0
                             THEN resolveVariableValue(prim, availableModes[1], S_fallback)
                             ELSE <<>>
     IN  ret' = IF fallbackResult # <<>>
                  THEN fallbackResult
                  ELSE <<createFallbackResult(S_Unresolved \o <<":"," ">> \o prim.name)>>
  /\ pc' = "return"
  /\ consulted' = consulted \cup {"fallback"}
  /\ counts' = Stepped(counts)
  /\ UNCHANGED <<call, frame, primitiveVar, matchingMode, stack, result>>
  /\ UNCHANGED <<hostVars, parked, treeVars, exportVars>>

\* a return: to the caller suspended at line 128 (lines 129-132), or out of the
\* outermost call
Return ==
  /\ pc = "return"
  /\ IF stack = <<>>
       THEN /\ result' = ret
            /\ pc' = "done"
            /\ UNCHANGED <<ret, stack, frame, primitiveVar>>
       ELSE LET caller == stack[Len(stack)]
                nestedResult == ret[1]
            IN  /\ ret' = <<ColorResult(nestedResult.hex,
                              variables[caller.primitiveVar].name \o S_Arrow
                                \o nestedResult.primitiveName)>>
                /\ stack' = SubSeq(stack, 1, Len(stack) - 1)
                /\ frame' = caller.frame
                /\ primitiveVar' = caller.primitiveVar
                /\ pc' = "return"
                /\ UNCHANGED result
  /\ counts' = Stepped(counts)
  /\ UNCHANGED <<call, matchingMode, consulted>>
  /\ UNCHANGED <<hostVars, parked, treeVars, exportVars>>

----------------------------------------------------------------------------
(* A resolveColor call on its own: any data source, any arguments *)

Variable(id, name, resolvedType, collId, vbm) ==
  [id |-> id, name |-> name, resolvedType |-> resolvedType,
   variableCollectionId |-> collId, valuesByMode |-> vbm]

NameA == <<"C","o","l","o","r","s","/","P","r","i","m","a","r","y">>
NameB == <<"G","r","a","y","/","5","0">>

\* identifier of a variable the file does not hold (a deleted alias target)
MissingId == "X"

\* the values variable `id` of a collection with modes `modeIds` may hold at a mode
Entries(id, modeIds, targets) ==
  UNION {{[modeId |-> m, value |-> v] :
            v \in {RawColor(id, m)} \cup {Alias(t) : t \in targets}} : m \in modeIds}

\* value maps: every order of at most MaxModesPerVar entries on distinct modes
RECURSIVE ValueMaps(_, _)
ValueMaps(entries, n) ==
  IF n = 0 THEN {<<>>}
  ELSE LET shorter == ValueMaps(entries, n - 1)
       IN  shorter \cup
           {Append(s, e) : s \in {t \in shorter : Len(t) = n - 1},
                           e \in entries} 

DistinctModes(vbm) ==
  \A i, j \in 1..Len(vbm) : i # j => vbm[i].modeId # vbm[j].modeId

ValueMapsOf(id, modeIds, targets) ==
  {vbm \in ValueMaps(Entries(id, modeIds, targets), MaxModesPerVar) : DistinctModes(vbm)}

ResolveSources ==
  {[id \in {"A", "B"} |->
      IF id = "A" THEN Variable("A", NameA, "COLOR", "c1", va)
                  ELSE Variable("B", NameB, "COLOR", cb, vb)] :
     va \in ValueMapsOf("A", ModeIdsOf("c1"), {"B", MissingId}),
     vb \in ValueMapsOf("B", ModeIdsOf("c2"), {"A", MissingId}),
     cb \in {"c2", "gone", ""}}

AllModeIds == UNION {ModeIdsOf(c) : c \in CollectionIds}

BrandModeTypes == {S_light, S_dark}

\* the locals of handleExportRequest, exportTokens and the functions they
\* call, before the request
NoRun ==
  [config |-> NoConfig, epc |-> "idle", tokenVars |-> <<>>, varIdx |-> 0,
   brandIdx |-> 0, tokenObj |-> <<>>, brandResult |-> <<>>, rootArray |-> <<>>,
   sortedTokens |-> <<>>, call |-> NoFrame, pc |-> "idle", frame |-> NoFrame,
   primitiveVar |-> "", matchingMode |-> <<>>, ret |-> <<>>, stack |-> <<>>,
   result |-> <<>>, consulted |-> {}, counts |-> NoCounts]

ResolverIdle ==
  /\ call = NoFrame
  /\ pc = "idle"
  /\ frame = NoFrame
  /\ primitiveVar = ""
  /\ matchingMode = <<>>
  /\ ret = <<>>
  /\ stack = <<>>
  /\ result = <<>>
  /\ consulted = {}
  /\ counts = NoCounts

TreeIdle ==
  /\ rootArray = <<>>
  /\ sortedTokens = <<>>
  /\ resorted = <<>>

ExportIdle ==
  /\ config = NoConfig
  /\ epc = "idle"
  /\ currentLang = "en"
  /\ tokenVars = <<>>
  /\ varIdx = 0
  /\ brandIdx = 0
  /\ tokenObj = <<>>
  /\ brandResult = <<>>
  /\ initPending = 0
  /\ initsSeen = 0
  /\ posted = <<>>
  /\ notifications = <<>>
  /\ parked = NoRun

InitResolve ==
  /\ variables \in ResolveSources
  /\ localOrder = <<>>
  /\ collation = "icu"
  /\ ResolverIdle
  /\ TreeIdle
  /\ ExportIdle

\* resolveColor(variable, modeId, primitiveModeId, brandModeType?)
Call(v, m, pm, bmt) ==
  /\ call' = Frame(v, m, pm, bmt)
  /\ frame' = Frame(v, m, pm, bmt)
  /\ pc' = "enter"
  /\ primitiveVar' = ""
  /\ matchingMode' = <<>>
  /\ ret' = <<>>
  /\ stack' = <<>>
  /\ result' = <<>>
  /\ consulted' = {}
  /\ counts' = NoCounts

ResolveColor ==
  /\ pc = "idle"
  /\ \E v \in DOMAIN variables, m \in AllModeIds, pm \in AllModeIds,
        bmt \in BrandModeTypes \cup {<<>>} :
       Call(v, m, pm, bmt)
  /\ UNCHANGED <<hostVars, parked, treeVars, exportVars>>

NextResolve ==
  \/ ResolveColor
  \/ Enter
  \/ Deref
  \/ Direct
  \/ Search
  \/ ModeValue
  \/ Fallback
  \/ Return

SpecResolve == InitResolve /\ [][NextResolve]_vars

----------------------------------------------------------------------------
(* A resolveColor call over three variables whose aliases may form chains *)

NameC == <<"B","l","u","e","/","5","0","0">>

\* value maps of at most one entry
SingleEntryMaps(id, modeIds, targets) ==
  {<<>>} \cup {<<e>> : e \in Entries(id, modeIds, targets)}

ChainSources ==
  {[id \in {"A", "B", "C"} |->
      CASE id = "A" -> Variable("A", NameA, "COLOR", "c1", va)
        [] id = "B" -> Variable("B", NameB, "COLOR", "c2", vb)
        [] id = "C" -> Variable("C", NameC, "COLOR", "c1", vc)] :
     va \in SingleEntryMaps("A", ModeIdsOf("c1"), {"B", "C", MissingId}),
     vb \in SingleEntryMaps("B", ModeIdsOf("c2"), {"A", "C", MissingId}),
     vc \in SingleEntryMaps("C", ModeIdsOf("c1"), {"A", "B", MissingId})}

InitChain ==
  /\ variables \in ChainSources
  /\ localOrder = <<>>
  /\ collation = "icu"
  /\ ResolverIdle
  /\ TreeIdle
  /\ ExportIdle

\* the continuation of a resolveColor call that has started
ResolverStep == Enter \/ Deref \/ Direct \/ Search \/ ModeValue \/ Fallback \/ Return

\* every await of resolveColor is on a host call that settles, and the event
\* loop then runs the continuation
SpecChain == InitChain /\ [][NextResolve]_vars /\ WF_vars(ResolverStep)

----------------------------------------------------------------------------
(* core/utils.ts: the tree builder *)

Group(name, children) == [name |-> name, type |-> "group", children |-> children]

Token(name, path, modes) ==
  [name |-> name, type |-> "token", path |-> path, modes |-> modes]

\* faulty variant: only the last item of the level is looked at
findGroupLastOnly(level, folderName) ==
  IF /\ Len(level) > 0
     /\ level[Len(level)].name = folderName
     /\ level[Len(level)].type = "group"
    THEN Len(level)
    ELSE 0

\* line 82: position of the first group of that name at the level, 0 when none
findGroup(level, folderName) ==
  LET hits == {i \in 1..Len(level) :
                 level[i].name = folderName /\ level[i].type = "group"}
  IN  IF hits = {} THEN 0 ELSE CHOOSE i \in hits : \A j \in hits : i <= j

\* the array `level` after the loop of lines 80-96 has walked `folders` from it
\* and line 99 has pushed the token
RECURSIVE insertTokenIntoTree(_, _, _)
insertTokenIntoTree(level, folders, token) ==
  IF folders = <<>> THEN Append(level, token)
  ELSE LET i == findGroup(level, Head(folders))
       IN  IF i = 0
             THEN Append(level, Group(Head(folders),
                                      insertTokenIntoTree(<<>>, Tail(folders), token)))
             ELSE [level EXCEPT
                     ![i].children = insertTokenIntoTree(@, Tail(folders), token)]

----------------------------------------------------------------------------
(* core/utils.ts: the sort *)

\* the order of the characters under the root collation (punctuation, digits,
\* letters; case is a third-level difference) and by UTF-16 code unit
CollationOrder == <<" ","_","-","/","#">> \o DigitChars \o LowerChars
CodeUnitOrder ==
  <<" ","#","-","/">> \o DigitChars \o UpperChars \o <<"_">> \o LowerChars

RECURSIVE LexCompare(_, _)
LexCompare(x, y) ==
  IF x = <<>> /\ y = <<>> THEN 0
  ELSE IF x = <<>> THEN -1
  ELSE IF y = <<>> THEN 1
  ELSE IF Head(x) < Head(y) THEN -1
  ELSE IF Head(x) > Head(y) THEN 1
  ELSE LexCompare(Tail(x), Tail(y))

PrimaryKey(s) == [i \in 1..Len(s) |-> IndexIn(toLowerCaseChar(s[i]), CollationOrder)]
TertiaryKey(s) == [i \in 1..Len(s) |-> IF IndexIn(s[i], UpperChars) > 0 THEN 1 ELSE 0]
CodeUnitKey(s) == [i \in 1..Len(s) |-> IndexIn(s[i], CodeUnitOrder)]

\* String.prototype.localeCompare: negative, zero or positive.  The order is
\* the host's: a collation (base letters first, then case) or code units.
localeCompare(a, b) ==
  IF collation = "icu"
    THEN LET p == LexCompare(PrimaryKey(a), PrimaryKey(b))
         IN  IF p # 0 THEN p ELSE LexCompare(TertiaryKey(a), TertiaryKey(b))
    ELSE LexCompare(CodeUnitKey(a), CodeUnitKey(b))

\* faulty variant: the names compared, the group-first rule forgotten
compareItemsByNameOnly(a, b) == localeCompare(a.name, b.name)

\* lines 120-127: the comparator
compareItems(a, b) ==
  IF a.type = "group" /\ b.type # "group" THEN -1
  ELSE IF a.type # "group" /\ b.type = "group" THEN 1
  ELSE localeCompare(a.name, b.name)

\* faulty variant: a sort that is not stable, an item going before its equals
RECURSIVE ArraySortUnstable(_)
ArraySortUnstable(items) ==
  IF items = <<>> THEN <<>>
  ELSE LET sorted == ArraySortUnstable(SubSeq(items, 1, Len(items) - 1))
           x == items[Len(items)]
           k == Cardinality({i \in 1..Len(sorted) : compareItems(sorted[i], x) < 0})
       IN  SubSeq(sorted, 1, k) \o <<x>> \o SubSeq(sorted, k + 1, Len(sorted))

\* Array.prototype.sort with the comparator of lines 120-127: a stable sort,
\* every item going after the items that compare lower or equal before it
RECURSIVE ArraySort(_)
ArraySort(items) ==
  IF items = <<>> THEN <<>>
  ELSE LET sorted == ArraySort(SubSeq(items, 1, Len(items) - 1))
           x == items[Len(items)]
           k == Cardinality({i \in 1..Len(sorted) : compareItems(sorted[i], x) <= 0})
       IN  SubSeq(sorted, 1, k) \o <<x>> \o SubSeq(sorted, k + 1, Len(sorted))

RECURSIVE sortTokensAlphabetically(_)
sortTokensAlphabetically(items) ==
  ArraySort([i \in 1..Len(items) |->
               IF items[i].type = "group" /\ "children" \in DOMAIN items[i]
                 THEN [items[i] EXCEPT !.children = sortTokensAlphabetically(@)]
                 ELSE items[i]])

----------------------------------------------------------------------------
(* The tree builder and the sort on their own *)

\* most calls of insertTokenIntoTree on one root array
MaxInserts == 3
\* most items at the root of a forest handed to the sort
MaxItems == 3
\* most children of a group of such a forest
MaxChildren == 1

FolderNames == {<<"a">>, <<"A","b">>}

\* folder paths: none, one or two folders
FolderPaths ==
  {<<>>} \cup {<<f>> : f \in FolderNames} \cup {<<f, g>> : f, g \in FolderNames}

\* tokens: two of one name, which is also a folder name, and one of another
TreeTokens ==
  { Token(<<"a">>, <<"a">>, <<>>),
    Token(<<"a">>, <<"A">>, <<>>),
    Token(<<"a","b">>, <<"a","b">>, <<>>) }

RECURSIVE CountTokens(_)
CountTokens(items) ==
  IF items = <<>> THEN 0
  ELSE (IF Head(items).type = "group" THEN CountTokens(Head(items).children) ELSE 1)
         + CountTokens(Tail(items))

Collations == {"icu", "codeunit"}

InitTree ==
  /\ variables = <<>>
  /\ localOrder = <<>>
  /\ collation \in Collations
  /\ ResolverIdle
  /\ TreeIdle
  /\ ExportIdle

\* insertTokenIntoTree(rootArray, folders, tokenObj)
InsertToken ==
  /\ sortedTokens = <<>>
  /\ CountTokens(rootArray) < MaxInserts
  /\ \E folders \in FolderPaths, token \in TreeTokens :
       rootArray' = insertTokenIntoTree(rootArray, folders, token)
  /\ UNCHANGED <<sortedTokens, resorted>>
  /\ UNCHANGED <<hostVars, parked, resolverVars, exportVars>>

\* sortTokensAlphabetically(rootArray)
SortTokens ==
  /\ sortedTokens = <<>>
  /\ sortedTokens' = <<sortTokensAlphabetically(rootArray)>>
  /\ UNCHANGED <<rootArray, resorted>>
  /\ UNCHANGED <<hostVars, parked, resolverVars, exportVars>>

\* sortTokensAlphabetically applied to its own result
SortAgain ==
  /\ sortedTokens # <<>>
  /\ resorted = <<>>
  /\ resorted' = <<sortTokensAlphabetically(sortedTokens[1])>>
  /\ UNCHANGED <<rootArray, sortedTokens>>
  /\ UNCHANGED <<hostVars, parked, resolverVars, exportVars>>

NextTree ==
  \/ InsertToken
  \/ SortTokens

SpecTree == InitTree /\ [][NextTree]_vars

\* every sequence of at most n members of a set
RECURSIVE SeqsUpTo(_, _)
SeqsUpTo(S, n) ==
  IF n = 0 THEN {<<>>}
  ELSE LET shorter == SeqsUpTo(S, n - 1)
       IN  shorter \cup {Append(q, e) : q \in {t \in shorter : Len(t) = n - 1}, e \in S}

\* forests of groups and tokens, groups holding tokens; names may repeat
SortTokenSet == {Token(<<"a">>, <<"a">>, <<>>), Token(<<"a">>, <<"A">>, <<>>)}

Forests ==
  SeqsUpTo(SortTokenSet
             \cup {Group(n, c) : n \in FolderNames, c \in SeqsUpTo(SortTokenSet, MaxChildren)},
           MaxItems)

InitSort ==
  /\ variables = <<>>
  /\ localOrder = <<>>
  /\ collation \in Collations
  /\ ResolverIdle
  /\ rootArray \in Forests
  /\ sortedTokens = <<>>
  /\ resorted = <<>>
  /\ ExportIdle

NextSort ==
  \/ SortTokens
  \/ SortAgain

SpecSort == InitSort /\ [][NextSort]_vars

----------------------------------------------------------------------------
(* core/utils.ts and core/export.ts: names and paths *)

\* String.prototype.split on a one-character separator
RECURSIVE split(_, _)
split(s, sep) ==
  IF \A i \in 1..Len(s) : s[i] # sep THEN <<s>>
  ELSE LET k == CHOOSE i \in 1..Len(s) :
                  s[i] = sep /\ \A j \in 1..(i - 1) : s[j] # sep
       IN  <<SubSeq(s, 1, k - 1)>> \o split(SubSeq(s, k + 1, Len(s)), sep)

\* replace(/\s+/g, by): every run of whitespace becomes one `by`
RECURSIVE replaceWhitespace(_, _)
replaceWhitespace(s, by) ==
  IF s = <<>> THEN <<>>
  ELSE IF Head(s) = " "
    THEN IF Len(s) > 1 /\ s[2] = " "
           THEN replaceWhitespace(Tail(s), by)
           ELSE by \o replaceWhitespace(Tail(s), by)
    ELSE <<Head(s)>> \o replaceWhitespace(Tail(s), by)

\* replace(/\//g, by)
RECURSIVE replaceSlashes(_, _)
replaceSlashes(s, by) ==
  IF s = <<>> THEN <<>>
  ELSE (IF Head(s) = "/" THEN by ELSE <<Head(s)>>) \o replaceSlashes(Tail(s), by)

toKebabCase(name) ==
  toLowerCase(replaceSlashes(replaceWhitespace(name, <<"-">>), <<"-">>))

sanitizeFolderName(name) == replaceSlashes(replaceWhitespace(name, <<>>), <<>>)

\* /^\d+$/.test(s)
IsDigits(s) == Len(s) > 0 /\ \A i \in 1..Len(s) : IndexIn(s[i], DigitChars) > 0

parseVariablePath(variableName) ==
  LET parts == split(variableName, "/")
      n == Len(parts)
      folders == [i \in 1..(n - 1) |-> sanitizeFolderName(parts[i])]
      filename == IF IsDigits(parts[n]) /\ n > 1
                    THEN toKebabCase(parts[n - 1]) \o <<"-">> \o parts[n]
                    ELSE toKebabCase(parts[n])
  IN  [folders |-> folders, filename |-> filename]

----------------------------------------------------------------------------
(* The file and the configurations of an export run *)

\* most "init" messages of one behaviour
MaxInitMessages == 1

\* the times Date.now() may give
Clock == {"t1", "t2"}

NameBorder == <<"C","o","l","o","r","s","/","B","o","r","d","e","r","/",
                "P","r","i","m","a","r","y">>
NameBackground == <<"C","o","l","o","r","s","/","B","a","c","k","g","r","o","u","n","d","/",
                    "P","r","i","m","a","r","y">>
NameBrand == <<"B","r","a","n","d"," ","C","o","l","o","r","s","/","P","r","i","m","a","r","y">>
NameHidden == <<"_","H","i","d","d","e","n","/","D","r","a","f","t">>
NameTmp == <<"#","t","m","p">>
NameSpacing == <<"S","p","a","c","i","n","g","/","4">>

\* a file: five color tokens, two of them with a private name, two sharing the
\* folder Colors and one in a folder with a space in its name, a number token
\* and a primitive
ExportVariables ==
  [id \in {"T1", "T2", "T3", "T4", "T5", "T6", "P1"} |->
     CASE id = "T1" -> Variable("T1", NameBorder, "COLOR", "c1",
                          << [modeId |-> "m1", value |-> Alias("P1")],
                             [modeId |-> "m2", value |-> Alias("P1")] >>)
       [] id = "T2" -> Variable("T2", NameHidden, "COLOR", "c1",
                          << [modeId |-> "m1", value |-> RawColor("T2", "m1")] >>)
       [] id = "T3" -> Variable("T3", NameTmp, "COLOR", "c1",
                          << [modeId |-> "m1", value |-> Alias(MissingId)] >>)
       [] id = "T4" -> Variable("T4", NameSpacing, "FLOAT", "c1", <<>>)
       [] id = "T5" -> Variable("T5", NameBackground, "COLOR", "c1",
                          << [modeId |-> "m1", value |-> RawColor("T5", "m1")],
                             [modeId |-> "m2", value |-> Alias("P1")] >>)
       [] id = "T6" -> Variable("T6", NameBrand, "COLOR", "c1",
                          << [modeId |-> "m1", value |-> Alias("P1")] >>)
       [] OTHER     -> Variable("P1", NameB, "COLOR", "c2",
                          << [modeId |-> "n1", value |-> RawColor("P1", "n1")],
                             [modeId |-> "n2", value |-> RawColor("P1", "n2")] >>)]

\* the orders in which getLocalVariablesAsync may list them
LocalOrders ==
  {<<"T1", "T2", "T3", "T4", "T5", "T6", "P1">>,
   <<"P1", "T6", "T5", "T4", "T3", "T2", "T1">>}

Binding(modeId, primitiveModeId) ==
  [modeId |-> modeId, primitiveModeId |-> primitiveModeId]

BrandLists ==
  { << [name |-> "Legacy", light |-> Binding("m1", "n1"), dark |-> Binding("m2", "n2")] >>,
    << [name |-> "Legacy", light |-> Binding("m1", "m1")],
       [name |-> "NewBrand", dark |-> Binding("m2", "m2")] >> }

\* identifier of a collection the file does not hold
UnknownCollection == "zz"

ExportConfigs ==
  {Config(t, p, b, l) :
     t \in CollectionIds \cup {UnknownCollection},
     p \in CollectionIds \cup {UnknownCollection},
     b \in BrandLists, l \in {"", "fr"}}

----------------------------------------------------------------------------
(* code.ts and core/export.ts: the message handlers and the export run *)

\* translations[lang] || translations.en, in both files
Translation(lang) == IF lang \in {"fr", "en"} THEN lang ELSE "en"

Notification(key, lang, detail) == [key |-> key, lang |-> lang, detail |-> detail]

CollectionsNotFound == "Collections not found - please check your collection IDs"

\* code.ts 31-33: an "init" message; the handler then awaits the collections
InitMessage ==
  /\ initsSeen < MaxInitMessages
  /\ \E lang \in {"", "fr", "de"} :
       currentLang' = IF lang # "" THEN lang ELSE currentLang
  /\ initsSeen' = initsSeen + 1
  /\ initPending' = initPending + 1
  /\ UNCHANGED <<config, epc, tokenVars, varIdx, brandIdx, tokenObj, brandResult,
                 posted, notifications>>
  /\ UNCHANGED <<hostVars, parked, resolverVars, treeVars>>

\* code.ts 48-55: the collections arrive and go to the UI
InitReply ==
  /\ initPending > 0
  /\ initPending' = initPending - 1
  /\ posted' = Append(posted,
       [type |-> "init-data",
        collections |-> [i \in 1..Len(Collections) |->
                           [id |-> Collections[i].id, name |-> Collections[i].name,
                            modes |-> Collections[i].modes]]])
  /\ UNCHANGED <<config, epc, currentLang, tokenVars, varIdx, brandIdx, tokenObj,
                 brandResult, initsSeen, notifications>>
  /\ UNCHANGED <<hostVars, parked, resolverVars, treeVars>>

\* code.ts 37-38, 67-69 and export.ts 46-54: an "export" message, up to the
\* await of the collections
ExportRequest ==
  /\ epc = "idle"
  /\ \E cfg \in ExportConfigs :
       /\ config' = cfg
       /\ notifications' = Append(notifications,
            Notification("analyzing",
                         Translation(IF cfg.lang # "" THEN cfg.lang ELSE "en"), ""))
  /\ epc' = "collections"
  /\ UNCHANGED <<currentLang, tokenVars, varIdx, brandIdx, tokenObj, brandResult,
                 initPending, initsSeen, posted>>
  /\ UNCHANGED <<hostVars, parked, resolverVars, treeVars>>

\* faulty variant: the error raised only when both collections are missing
ValidateCollectionsBothMissing ==
  /\ epc = "collections"
  /\ LET hasPrimitives == \E i \in 1..Len(Collections) :
                            Collections[i].id = config.primitiveCollectionId
         hasTokens == \E i \in 1..Len(Collections) :
                        Collections[i].id = config.tokenCollectionId
     IN  IF ~hasPrimitives /\ ~hasTokens
           THEN /\ notifications' = Append(notifications,
                     Notification("exportError", Translation(currentLang),
                                  CollectionsNotFound))
                /\ epc' = "done"
           ELSE /\ epc' = "variables"
                /\ UNCHANGED notifications
  /\ UNCHANGED <<config, currentLang, tokenVars, varIdx, brandIdx, tokenObj,
                 brandResult, initPending, initsSeen, posted>>
  /\ UNCHANGED <<hostVars, parked, resolverVars, treeVars>>

\* export.ts 81-89: both collections looked up; the error of line 88 is caught
\* in code.ts 70-73
ValidateCollections ==
  /\ epc = "collections"
  /\ LET hasPrimitives == \E i \in 1..Len(Collections) :
                            Collections[i].id = config.primitiveCollectionId
         hasTokens == \E i \in 1..Len(Collections) :
                        Collections[i].id = config.tokenCollectionId
     IN  IF ~hasPrimitives \/ ~hasTokens
           THEN /\ notifications' = Append(notifications,
                     Notification("exportError", Translation(currentLang),
                                  CollectionsNotFound))
                /\ epc' = "done"
           ELSE /\ epc' = "variables"
                /\ UNCHANGED notifications
  /\ UNCHANGED <<config, currentLang, tokenVars, varIdx, brandIdx, tokenObj,
                 brandResult, initPending, initsSeen, posted>>
  /\ UNCHANGED <<hostVars, parked, resolverVars, treeVars>>

\* Array.prototype.filter on the ids of a list of variables
RECURSIVE FilterByCollection(_, _)
FilterByCollection(ids, collId) ==
  IF ids = <<>> THEN <<>>
  ELSE (IF variables[Head(ids)].variableCollectionId = collId
          THEN <<Head(ids)>> ELSE <<>>)
         \o FilterByCollection(Tail(ids), collId)

\* export.ts 92-95 and 57, 106: the token collection's variables, an empty root
GetVariables ==
  /\ epc = "variables"
  /\ tokenVars' = FilterByCollection(localOrder, config.tokenCollectionId)
  /\ rootArray' = <<>>
  /\ varIdx' = 1
  /\ epc' = "loop"
  /\ UNCHANGED <<config, currentLang, brandIdx, tokenObj, brandResult, initPending,
                 initsSeen, posted, notifications>>
  /\ UNCHANGED <<hostVars, parked, resolverVars, sortedTokens, resorted>>

\* faulty variant: the test of line 111 left out
NextVariableAnyType ==
  /\ epc = "loop"
  /\ varIdx <= Len(tokenVars)
  /\ LET variable == variables[tokenVars[varIdx]]
     IN  /\ tokenObj' = <<Token(parseVariablePath(variable.name).filename,
                                variable.name, <<>>)>>
         /\ brandIdx' = 1
         /\ epc' = "brand"
         /\ UNCHANGED varIdx
  /\ UNCHANGED <<config, currentLang, tokenVars, brandResult, initPending, initsSeen,
                 posted, notifications>>
  /\ UNCHANGED <<hostVars, parked, resolverVars, treeVars>>

\* export.ts 109-113 and 130-138: the next variable; one that is no COLOR is
\* skipped, for a COLOR the token object is begun
NextVariable ==
  /\ epc = "loop"
  /\ varIdx <= Len(tokenVars)
  /\ LET variable == variables[tokenVars[varIdx]]
     IN  IF variable.resolvedType # "COLOR"
           THEN /\ varIdx' = varIdx + 1
                /\ UNCHANGED <<epc, tokenObj, brandIdx>>
           ELSE /\ tokenObj' = <<Token(parseVariablePath(variable.name).filename,
                                       variable.name, <<>>)>>
                /\ brandIdx' = 1
                /\ epc' = "brand"
                /\ UNCHANGED varIdx
  /\ UNCHANGED <<config, currentLang, tokenVars, brandResult, initPending, initsSeen,
                 posted, notifications>>
  /\ UNCHANGED <<hostVars, parked, resolverVars, treeVars>>

\* export.ts 141-142 and resolve.ts 159: the next brand
NextBrand ==
  /\ epc = "brand"
  /\ brandIdx <= Len(config.brands)
  /\ brandResult' = <<>>
  /\ epc' = "light"
  /\ UNCHANGED <<config, currentLang, tokenVars, varIdx, brandIdx, tokenObj,
                 initPending, initsSeen, posted, notifications>>
  /\ UNCHANGED <<hostVars, parked, resolverVars, treeVars>>

\* brand.light?.modeId, brand.dark?.modeId
HasMode(brand, which) == which \in DOMAIN brand /\ brand[which].modeId # ""

\* resolve.ts 161-163: the light color asked for, or the binding skipped
ResolveLight ==
  /\ epc = "light"
  /\ LET brand == config.brands[brandIdx]
     IN  IF HasMode(brand, "light")
           THEN /\ Call(tokenVars[varIdx], brand.light.modeId,
                        brand.light.primitiveModeId, S_light)
                /\ epc' = "lightWait"
           ELSE /\ epc' = "dark"
                /\ UNCHANGED resolverVars
  /\ UNCHANGED <<config, currentLang, tokenVars, varIdx, brandIdx, tokenObj,
                 brandResult, initPending, initsSeen, posted, notifications>>
  /\ UNCHANGED <<hostVars, parked, treeVars>>

\* resolve.ts 163-164: the light color arrives
LightResolved ==
  /\ epc = "lightWait"
  /\ pc = "done"
  /\ brandResult' = [k \in DOMAIN brandResult \cup {"light"} |->
                       IF k = "light" THEN result[1] ELSE brandResult[k]]
  /\ pc' = "idle"
  /\ epc' = "dark"
  /\ UNCHANGED <<call, frame, primitiveVar, matchingMode, ret, stack, result, consulted,
                 counts>>
  /\ UNCHANGED <<config, currentLang, tokenVars, varIdx, brandIdx, tokenObj,
                 initPending, initsSeen, posted, notifications>>
  /\ UNCHANGED <<hostVars, parked, treeVars>>

\* export.ts 143: tokenObj.modes[brand.name] = brandResult
WithBrand(token, brandName, res) ==
  [token EXCEPT !.modes = [k \in DOMAIN token.modes \cup {brandName} |->
                             IF k = brandName THEN res ELSE token.modes[k]]]

\* resolve.ts 167-169: the dark color asked for; with the binding skipped the
\* brand's result goes into the token (resolve.ts 173, export.ts 143)
ResolveDark ==
  /\ epc = "dark"
  /\ LET brand == config.brands[brandIdx]
     IN  IF HasMode(brand, "dark")
           THEN /\ Call(tokenVars[varIdx], brand.dark.modeId,
                        brand.dark.primitiveModeId, S_dark)
                /\ epc' = "darkWait"
                /\ UNCHANGED <<tokenObj, brandIdx>>
           ELSE /\ tokenObj' = <<WithBrand(tokenObj[1], brand.name, brandResult)>>
                /\ brandIdx' = brandIdx + 1
                /\ epc' = "brand"
                /\ UNCHANGED resolverVars
  /\ UNCHANGED <<config, currentLang, tokenVars, varIdx, brandResult, initPending,
                 initsSeen, posted, notifications>>
  /\ UNCHANGED <<hostVars, parked, treeVars>>

\* resolve.ts 169-173 and export.ts 143: the dark color arrives and the brand's
\* result goes into the token
DarkResolved ==
  /\ epc = "darkWait"
  /\ pc = "done"
  /\ LET brand == config.brands[brandIdx]
         res == [k \in DOMAIN brandResult \cup {"dark"} |->
                   IF k = "dark" THEN result[1] ELSE brandResult[k]]
     IN  /\ brandResult' = res
         /\ tokenObj' = <<WithBrand(tokenObj[1], brand.name, res)>>
  /\ brandIdx' = brandIdx + 1
  /\ pc' = "idle"
  /\ epc' = "brand"
  /\ UNCHANGED <<call, frame, primitiveVar, matchingMode, ret, stack, result, consulted,
                 counts>>
  /\ UNCHANGED <<config, currentLang, tokenVars, varIdx, initPending, initsSeen,
                 posted, notifications>>
  /\ UNCHANGED <<hostVars, parked, treeVars>>

\* export.ts 114-117: every brand is resolved; the token goes into the tree
InsertResolvedToken ==
  /\ epc = "brand"
  /\ brandIdx > Len(config.brands)
  /\ rootArray' = insertTokenIntoTree(rootArray,
                    parseVariablePath(variables[tokenVars[varIdx]].name).folders,
                    tokenObj[1])
  /\ tokenObj' = <<>>
  /\ varIdx' = varIdx + 1
  /\ epc' = "loop"
  /\ UNCHANGED <<config, currentLang, tokenVars, brandIdx, brandResult, initPending,
                 initsSeen, posted, notifications>>
  /\ UNCHANGED <<hostVars, parked, resolverVars, sortedTokens, resorted>>

\* utils.ts 134-141: createExportMetadata at time `now`
createExportMetadata(now) ==
  [exportedAt |-> now, timestamp |-> now, version |-> "1.0.0",
   generator |-> "Multibrand Token Exporter"]

\* export.ts 60-70: sort, wrap, post the document, notify
FinishExport ==
  /\ epc = "loop"
  /\ varIdx > Len(tokenVars)
  /\ sortedTokens' = <<sortTokensAlphabetically(rootArray)>>
  /\ \E now \in Clock :
       posted' = Append(posted,
         [type |-> "download-json",
          data |-> [metadata |-> createExportMetadata(now),
                    tokens |-> sortTokensAlphabetically(rootArray)]])
  /\ notifications' = Append(notifications,
       Notification("exportFinished",
                    Translation(IF config.lang # "" THEN config.lang ELSE "en"), ""))
  /\ epc' = "done"
  /\ UNCHANGED <<config, currentLang, tokenVars, varIdx, brandIdx, tokenObj,
                 brandResult, initPending, initsSeen>>
  /\ UNCHANGED <<hostVars, parked, resolverVars, rootArray, resorted>>

InitExport ==
  /\ variables = ExportVariables
  /\ localOrder \in LocalOrders
  /\ collation \in Collations
  /\ ResolverIdle
  /\ TreeIdle
  /\ ExportIdle

NextExport ==
  \/ InitMessage
  \/ InitReply
  \/ ExportRequest
  \/ ValidateCollections
  \/ GetVariables
  \/ NextVariable
  \/ NextBrand
  \/ ResolveLight
  \/ LightResolved
  \/ ResolveDark
  \/ DarkResolved
  \/ InsertResolvedToken
  \/ FinishExport
  \/ Enter
  \/ Deref
  \/ Direct
  \/ Search
  \/ ModeValue
  \/ Fallback
  \/ Return

SpecExport == InitExport /\ [][NextExport]_vars

----------------------------------------------------------------------------
(* Two export requests in flight: figma.ui.onmessage (code.ts 29-40) starts a
   handler for each message, and a handler runs until it awaits.  The
   variables above hold the locals of the run that is running; parked holds
   those of the other.  posted, notifications and currentLang belong to the
   host and to the module, and both runs see the same ones. *)

\* the locals of the running export
ThisRun ==
  [config |-> config, epc |-> epc, tokenVars |-> tokenVars, varIdx |-> varIdx,
   brandIdx |-> brandIdx, tokenObj |-> tokenObj, brandResult |-> brandResult,
   rootArray |-> rootArray, sortedTokens |-> sortedTokens, call |-> call,
   pc |-> pc, frame |-> frame, primitiveVar |-> primitiveVar,
   matchingMode |-> matchingMode, ret |-> ret, stack |-> stack,
   result |-> result, consulted |-> consulted, counts |-> counts]

\* faulty variant: the tree kept in one place for both runs, as a variable of
\* the module would be
YieldSharedTree ==
  /\ pc # "enter"
  /\ epc \notin {"brand", "light", "dark"}
  /\ parked' = [ThisRun EXCEPT !.rootArray = parked.rootArray]
  /\ config' = parked.config
  /\ epc' = parked.epc
  /\ tokenVars' = parked.tokenVars
  /\ varIdx' = parked.varIdx
  /\ brandIdx' = parked.brandIdx
  /\ tokenObj' = parked.tokenObj
  /\ brandResult' = parked.brandResult
  /\ sortedTokens' = parked.sortedTokens
  /\ call' = parked.call
  /\ pc' = parked.pc
  /\ frame' = parked.frame
  /\ primitiveVar' = parked.primitiveVar
  /\ matchingMode' = parked.matchingMode
  /\ ret' = parked.ret
  /\ stack' = parked.stack
  /\ result' = parked.result
  /\ consulted' = parked.consulted
  /\ counts' = parked.counts
  /\ UNCHANGED <<hostVars, rootArray, resorted, currentLang, initPending, initsSeen,
                 posted, notifications>>

\* the running handler is at an await, has not begun or has ended: between
\* NextVariable and the first stretch of resolveColor, and between one
\* resolveColor call of a brand and the next, the code awaits nothing
Awaiting ==
  /\ pc # "enter"
  /\ epc \notin {"brand", "light", "dark"}

\* the running handler awaits (or has not begun, or has ended) and the event
\* loop goes on with the other one; each keeps its own locals
Yield ==
  /\ Awaiting
  /\ parked' = ThisRun
  /\ config' = parked.config
  /\ epc' = parked.epc
  /\ tokenVars' = parked.tokenVars
  /\ varIdx' = parked.varIdx
  /\ brandIdx' = parked.brandIdx
  /\ tokenObj' = parked.tokenObj
  /\ brandResult' = parked.brandResult
  /\ rootArray' = parked.rootArray
  /\ sortedTokens' = parked.sortedTokens
  /\ call' = parked.call
  /\ pc' = parked.pc
  /\ frame' = parked.frame
  /\ primitiveVar' = parked.primitiveVar
  /\ matchingMode' = parked.matchingMode
  /\ ret' = parked.ret
  /\ stack' = parked.stack
  /\ result' = parked.result
  /\ consulted' = parked.consulted
  /\ counts' = parked.counts
  /\ UNCHANGED <<hostVars, resorted, currentLang, initPending, initsSeen, posted,
                 notifications>>

\* a file of two color tokens and a primitive
ConcurrentVariables == [id \in {"T1", "T5", "P1"} |-> ExportVariables[id]]

InitConcurrent ==
  /\ variables = ConcurrentVariables
  /\ localOrder = <<"T1", "T5", "P1">>
  /\ collation = "icu"
  /\ ResolverIdle
  /\ TreeIdle
  /\ ExportIdle

NextConcurrent ==
  \/ Yield
  \/ ExportRequest
  \/ ValidateCollections
  \/ GetVariables
  \/ NextVariable
  \/ NextBrand
  \/ ResolveLight
  \/ LightResolved
  \/ ResolveDark
  \/ DarkResolved
  \/ InsertResolvedToken
  \/ FinishExport
  \/ Enter
  \/ Deref
  \/ Direct
  \/ Search
  \/ ModeValue
  \/ Fallback
  \/ Return

SpecConcurrent == InitConcurrent /\ [][NextConcurrent]_vars

----------------------------------------------------------------------------
(* Properties of resolveColor, checked under SpecResolve *)

\* the value the outermost call reads at its modeId
CallValue == ValueAt(variables[call.variable], call.modeId)

IsAlias(value) == "id" \in DOMAIN value
IsRaw(value) == "r" \in DOMAIN value

\* the call's value is an alias of a variable the data source holds
AliasesExisting == IsAlias(CallValue) /\ CallValue.id \in DOMAIN variables

\* the variable the call's alias points to
Primitive == variables[CallValue.id]

\* the modes of the primitive's owning collection, <<>> when it has none
PrimitiveModes ==
  IF Primitive.variableCollectionId \in CollectionIds
    THEN getVariableCollectionById(Primitive.variableCollectionId)[1].modes
    ELSE <<>>

\* positions of the modes whose name contains the call's brandModeType
Matches(modes, bmt) ==
  {i \in 1..Len(modes) :
     \E k \in 1..Len(modes[i].name) :
       /\ k + Len(bmt) - 1 <= Len(modes[i].name)
       /\ \A d \in 1..Len(bmt) : toLowerCaseChar(modes[i].name[k + d - 1]) = bmt[d]}

\* the search applies and finds the mode at position i
SearchFinds(i) ==
  /\ call.brandModeType # <<>>
  /\ i \in Matches(PrimitiveModes, call.brandModeType)
  /\ \A j \in Matches(PrimitiveModes, call.brandModeType) : i <= j

\* the primitive has no raw color at the call's primitiveModeId
DirectFails == ~IsRaw(ValueAt(Primitive, call.primitiveModeId))

\* C1: for every variable and every modeId at which the variable holds no
\* value, resolveColor returns hex #FF00FF with a descriptive provenance, not
\* an ordinary color with an ordinary provenance.
C1_UnmappedModeSentinel ==
  (pc = "done" /\ CallValue = Undefined) =>
    /\ result[1].hex = HexMagenta
    /\ result[1].primitiveName # S_Raw

\* C2: when the value at modeId is an alias whose target the data source does
\* not hold, resolveColor returns exactly #FF00FF / "Unresolved", for every
\* primitiveModeId and brandModeType, and makes no direct lookup, no mode
\* search and no fallback lookup on the way.
C2_MissingTargetUnresolved ==
  (call # NoFrame /\ IsAlias(CallValue) /\ CallValue.id \notin DOMAIN variables) =>
    /\ consulted \subseteq {"getVariableById"}
    /\ stack = <<>>
    /\ pc \in {"enter", "deref", "return", "done"}
    /\ pc = "done" =>
         result = <<[hex |-> HexMagenta, primitiveName |-> S_Unresolved]>>

C2_Witness ==
  /\ pc = "done"
  /\ IsAlias(CallValue) /\ CallValue.id \notin DOMAIN variables
  /\ call.brandModeType = S_dark
  /\ call.primitiveModeId \in ModeIdsOf("c2")
  /\ result = <<[hex |-> HexMagenta, primitiveName |-> S_Unresolved]>>

\* C7: when the value at modeId aliases an existing primitive with no raw color
\* at primitiveModeId, brandModeType is supplied, and the first mode of the
\* primitive's collection whose name contains brandModeType (ignoring case)
\* holds a raw color on the primitive, resolveColor returns that mode's hex
\* with provenance "<primitive path> (<mode name>)".
C7_MatchingModeColor ==
  (pc = "done" /\ AliasesExisting /\ DirectFails) =>
    \A i \in 1..Len(PrimitiveModes) :
      (SearchFinds(i) /\ IsRaw(ValueAt(Primitive, PrimitiveModes[i].modeId))) =>
        result = <<[hex |-> rgbaToHex(ValueAt(Primitive, PrimitiveModes[i].modeId)),
                    primitiveName |-> Primitive.name \o <<" ","(">>
                                        \o PrimitiveModes[i].name \o <<")">>]>>

\* a dark search that must fold case and skip nothing: "Mid DARK" precedes "dark"
C7_Witness ==
  /\ pc = "done"
  /\ AliasesExisting
  /\ DirectFails
  /\ call.brandModeType = S_dark
  /\ CallValue.id = "B"
  /\ Primitive.variableCollectionId = "c2"
  /\ IsRaw(ValueAt(Primitive, "n1"))
  /\ IsRaw(ValueAt(Primitive, "n2"))
  /\ result = <<[hex |-> <<"#","0","0","0","0","F","F","8","0">>,
                 primitiveName |-> NameB \o <<" ","(","M","i","d"," ","D","A","R","K",")">>]>>

\* the mode the search picks for variable id, <<>> when none
ChosenMode(id, bmt) ==
  LET collId == variables[id].variableCollectionId
      modes == IF collId \in CollectionIds
                 THEN getVariableCollectionById(collId)[1].modes ELSE <<>>
      hits == Matches(modes, bmt)
  IN  IF bmt = <<>> \/ hits = {} THEN <<>>
      ELSE <<modes[CHOOSE i \in hits : \A j \in hits : i <= j].modeId>>

\* a and b alias each other at the modes the search picks, neither holds a raw
\* color at the modes tried, and the call's alias leads into the pair at a
CircularPair(a, b) ==
  LET bmt == call.brandModeType
      ma == ChosenMode(a, bmt)
      mb == ChosenMode(b, bmt)
  IN  /\ a # b
      /\ ma # <<>> /\ mb # <<>>
      /\ ValueAt(variables[a], ma[1]) = Alias(b)
      /\ ValueAt(variables[b], mb[1]) = Alias(a)
      /\ ~IsRaw(ValueAt(variables[a], mb[1]))
      /\ ~IsRaw(ValueAt(variables[b], ma[1]))
      /\ CallValue = Alias(a)
      /\ ~IsRaw(ValueAt(variables[a], call.primitiveModeId))

CircularCall ==
  /\ call # NoFrame
  /\ \E a, b \in DOMAIN variables : CircularPair(a, b)

\* C9: with brandModeType supplied and two variables aliasing each other at the
\* modes the search picks, neither holding a raw color at the modes tried,
\* resolveColor never returns: it never reaches a return or the fallback tier,
\* and every time it reaches the matching mode's value it re-enters itself.
C9_CircularNeverReturns ==
  CircularCall =>
    /\ result = <<>>
    /\ ret = <<>>
    /\ pc \in {"enter", "deref", "direct", "search", "mode"}
    /\ pc = "mode" =>
         IsAlias(ValueAt(variables[primitiveVar], matchingMode[1].modeId))

\* the nesting has reached the model's depth and the running activation has
\* the arguments of the one two levels up
C9_Witness ==
  /\ CircularCall
  /\ Len(stack) = MaxDepth
  /\ frame = stack[Len(stack) - 1].frame
  /\ frame.variable # stack[Len(stack)].frame.variable

\* the primitive's first mode in enumeration order holds a raw color
FirstModeRaw ==
  /\ Len(Primitive.valuesByMode) > 0
  /\ IsRaw(Primitive.valuesByMode[1].value)

FallbackColor ==
  <<[hex |-> rgbaToHex(Primitive.valuesByMode[1].value),
     primitiveName |-> Primitive.name \o <<" ","(">> \o S_fallback \o <<")">>]>>

\* the search does not apply or finds no mode
NoModeFound ==
  \/ call.brandModeType = <<>>
  \/ Matches(PrimitiveModes, call.brandModeType) = {}

\* C10 as stated: the fallback color is returned whenever neither the direct
\* lookup nor the mode search yields a color, including when the matched mode
\* holds an alias whose recursive resolution ended in the sentinel.
C10_FallbackAsStated ==
  (/\ pc = "done"
   /\ AliasesExisting
   /\ DirectFails
   /\ FirstModeRaw
   /\ \/ NoModeFound
      \/ \E i \in 1..Len(PrimitiveModes) :
           /\ SearchFinds(i)
           /\ \/ ValueAt(Primitive, PrimitiveModes[i].modeId) = Undefined
              \/ /\ IsAlias(ValueAt(Primitive, PrimitiveModes[i].modeId))
                 /\ result[1].hex = HexMagenta) =>
    result = FallbackColor

\* C10 amended: the fallback color is returned when the direct lookup fails and
\* brandModeType is absent, no mode matches, or the primitive holds no value at
\* the matched mode.
C10_FallbackFirstMode ==
  (/\ pc = "done"
   /\ AliasesExisting
   /\ DirectFails
   /\ FirstModeRaw
   /\ \/ NoModeFound
      \/ \E i \in 1..Len(PrimitiveModes) :
           /\ SearchFinds(i)
           /\ ValueAt(Primitive, PrimitiveModes[i].modeId) = Undefined) =>
    result = FallbackColor

\* no mode of the primitive's collection is a light mode, and the first key of
\* its value map is not the only key
C10_Witness ==
  /\ pc = "done"
  /\ AliasesExisting
  /\ DirectFails
  /\ FirstModeRaw
  /\ Len(Primitive.valuesByMode) = 2
  /\ call.brandModeType = S_light
  /\ Primitive.variableCollectionId = "c2"
  /\ Matches(PrimitiveModes, call.brandModeType) = {}
  /\ result = FallbackColor

\* the primitive holds nothing at the matched mode
C10_WitnessEmptyMatch ==
  /\ pc = "done"
  /\ AliasesExisting
  /\ DirectFails
  /\ FirstModeRaw
  /\ \E i \in 1..Len(PrimitiveModes) :
       /\ SearchFinds(i)
       /\ ValueAt(Primitive, PrimitiveModes[i].modeId) = Undefined
  /\ result = FallbackColor

----------------------------------------------------------------------------
(* Properties of the tree builder and the sort *)

\* every array of the forest: the root and every group's children
RECURSIVE Arrays(_)
Arrays(items) ==
  {items} \cup UNION {IF items[i].type = "group" THEN Arrays(items[i].children) ELSE {} :
                        i \in 1..Len(items)}

\* a <= b in the order localeCompare implements, read off the keys
NameLeq(a, b) ==
  IF collation = "icu"
    THEN \/ LexCompare(PrimaryKey(a), PrimaryKey(b)) < 0
         \/ /\ PrimaryKey(a) = PrimaryKey(b)
            /\ LexCompare(TertiaryKey(a), TertiaryKey(b)) <= 0
    ELSE LexCompare(CodeUnitKey(a), CodeUnitKey(b)) <= 0

GroupsFirstAndOrdered(arr) ==
  \A i, j \in 1..Len(arr) :
    i < j =>
      /\ ~(arr[i].type = "token" /\ arr[j].type = "group")
      /\ arr[i].type = arr[j].type => NameLeq(arr[i].name, arr[j].name)

\* C4: for every forest built by insertTokenIntoTree calls, the result of
\* sortTokensAlphabetically has, at the root and in every group's children at
\* every depth, all groups before all tokens, and within the groups and within
\* the tokens names non-decreasing in the collation order.
C4_SortedGroupsFirst ==
  sortedTokens # <<>> =>
    \A arr \in Arrays(sortedTokens[1]) : GroupsFirstAndOrdered(arr)

\* a sorted forest whose root holds two groups that had to swap and a token
\* that had to move behind them, with a nested group below
C4_Witness ==
  /\ sortedTokens # <<>>
  /\ collation = "icu"
  /\ Len(rootArray) = 3
  /\ rootArray[1].type = "token"
  /\ rootArray[2].name = <<"A","b">> /\ rootArray[2].type = "group"
  /\ rootArray[3].name = <<"a">> /\ rootArray[3].type = "group"
  /\ sortedTokens[1][1].name = <<"a">>
  /\ sortedTokens[1][2].name = <<"A","b">>
  /\ sortedTokens[1][3].type = "token"

\* C5: starting from an empty root array, after any sequence of
\* insertTokenIntoTree calls no array of the tree holds two groups of one name.
C5_GroupNamesUnique ==
  \A arr \in Arrays(rootArray) :
    \A i, j \in 1..Len(arr) :
      (i # j /\ arr[i].type = "group" /\ arr[j].type = "group") =>
        arr[i].name # arr[j].name

\* a level holding a token and a group of the same name, the group merged into
\* a second time after the token arrived
C5_Witness ==
  /\ Len(rootArray) = 2
  /\ rootArray[1].type = "group" /\ rootArray[1].name = <<"a">>
  /\ rootArray[2].type = "token" /\ rootArray[2].name = <<"a">>
  /\ Len(rootArray[1].children) = 2

\* C6: sortTokensAlphabetically is idempotent: sorting its result again gives a
\* forest identical to that result, element order included.
C6_SortIdempotent ==
  resorted # <<>> => resorted = sortedTokens

\* a forest that the sort changed, holding two different tokens of one name
\* and two different groups of one name at the root
C6_Witness ==
  /\ resorted # <<>>
  /\ sortedTokens[1] # rootArray
  /\ \E i, j \in 1..Len(rootArray) :
       /\ i < j
       /\ rootArray[i].name = rootArray[j].name
       /\ rootArray[i].type = rootArray[j].type
       /\ rootArray[i] # rootArray[j]

----------------------------------------------------------------------------
(* Properties of the export run, checked under SpecExport *)

DownloadPosted == \E i \in 1..Len(posted) : posted[i].type = "download-json"

Notified(key) == \E i \in 1..Len(notifications) : notifications[i].key = key

UnknownCollectionConfigured ==
  \/ config.tokenCollectionId \notin CollectionIds
  \/ config.primitiveCollectionId \notin CollectionIds

\* C3: when tokenCollectionId or primitiveCollectionId matches no collection,
\* the run aborts with the "collections not found" error, which the export
\* request handler catches and shows as a notification; no download-json
\* message and no export-finished notification is ever emitted on that run.
C3_UnknownCollectionAborts ==
  (epc # "idle" /\ UnknownCollectionConfigured) =>
    /\ ~DownloadPosted
    /\ ~Notified("exportFinished")
    /\ epc \in {"collections", "done"}
    /\ pc = "idle" /\ rootArray = <<>> /\ sortedTokens = <<>>
    /\ epc = "done" =>
         notifications[Len(notifications)] \in
           {Notification("exportError", l, CollectionsNotFound) : l \in {"en", "fr"}}

\* the token collection exists, the primitive collection does not
C3_Witness ==
  /\ epc = "done"
  /\ config.tokenCollectionId \in CollectionIds
  /\ config.primitiveCollectionId = UnknownCollection
  /\ Notified("exportError")
  /\ ~DownloadPosted

\* the tokens of a forest, at every depth
RECURSIVE TokensOf(_)
TokensOf(items) ==
  UNION {IF items[i].type = "group" THEN TokensOf(items[i].children) ELSE {items[i]} :
           i \in 1..Len(items)}

IsPrivateName(name) == Len(name) > 0 /\ name[1] \in {"_", "#"}

\* C8: for every variable of the token collection whose name begins with "_"
\* or "#", the emitted document holds no token for that variable.
C8_PrivateVariablesExcluded ==
  \A i \in 1..Len(posted) :
    posted[i].type = "download-json" =>
      \A token \in TokensOf(posted[i].data.tokens) :
        ~(\E id \in DOMAIN variables :
            /\ variables[id].variableCollectionId = config.tokenCollectionId
            /\ IsPrivateName(variables[id].name)
            /\ token.path = variables[id].name)

\* the tokens of a forest at every depth, in document order
RECURSIVE TokenList(_)
TokenList(items) ==
  IF items = <<>> THEN <<>>
  ELSE (IF Head(items).type = "group" THEN TokenList(Head(items).children)
                                      ELSE <<Head(items)>>)
         \o TokenList(Tail(items))

\* the items below the chain of groups named by folders; <<>> when a group of
\* the chain is missing
RECURSIVE ChildrenAt(_, _)
ChildrenAt(items, folders) ==
  IF folders = <<>> THEN items
  ELSE LET hits == {i \in 1..Len(items) :
                      items[i].type = "group" /\ items[i].name = Head(folders)}
       IN  IF hits = {} THEN <<>>
           ELSE ChildrenAt(items[CHOOSE i \in hits : TRUE].children, Tail(folders))

\* no level of the forest holds two groups of one name
RECURSIVE GroupsShared(_)
GroupsShared(items) ==
  /\ \A i, j \in 1..Len(items) :
       (i # j /\ items[i].type = "group" /\ items[j].type = "group") =>
         items[i].name # items[j].name
  /\ \A i \in 1..Len(items) :
       items[i].type = "group" => GroupsShared(items[i].children)

\* the COLOR variables of the configured token collection
ColorTokenVariables ==
  {id \in DOMAIN variables :
     /\ variables[id].variableCollectionId = config.tokenCollectionId
     /\ variables[id].resolvedType = "COLOR"}

TokensWithPath(tokens, path) == {i \in 1..Len(tokens) : tokens[i].path = path}

----------------------------------------------------------------------------
(* Non-interference of export runs, checked under SpecConcurrent *)

\* what resolveColor returns when nothing runs between its stretches
RECURSIVE resolveColorAlone(_, _, _, _)
resolveColorAlone(v, m, pm, bmt) ==
  LET value == ValueAt(variables[v], m)
  IN  IF ~isVariableAlias(value) THEN ColorResult(parseColorValue(value), S_Raw)
      ELSE IF getVariableById(value.id) = <<>> THEN createFallbackResult(S_Unresolved)
      ELSE
        LET prim == variables[value.id]
            directResult == resolveVariableValue(prim, pm, <<>>)
            mm == IF bmt # <<>> THEN findMatchingMode(prim, bmt) ELSE <<>>
            modeResult == resolveVariableValue(prim, mm[1].modeId, mm[1].modeName)
            keys == ObjectKeys(prim)
            fallbackResult == IF Len(keys) > 0
                                THEN resolveVariableValue(prim, keys[1], S_fallback)
                                ELSE <<>>
        IN  IF directResult # <<>> THEN directResult[1]
            ELSE IF mm # <<>> /\ modeResult # <<>> THEN modeResult[1]
            ELSE IF mm # <<>> /\ isVariableAlias(ValueAt(prim, mm[1].modeId))
              THEN LET nested == resolveColorAlone(prim.id, mm[1].modeId,
                                                   mm[1].modeId, bmt)
                   IN  ColorResult(nested.hex,
                                   prim.name \o S_Arrow \o nested.primitiveName)
            ELSE IF fallbackResult # <<>> THEN fallbackResult[1]
            ELSE createFallbackResult(S_Unresolved \o <<":"," ">> \o prim.name)

resolveBrandColorsAlone(v, brand) ==
  [k \in {w \in {"light", "dark"} : HasMode(brand, w)} |->
     resolveColorAlone(v, brand[k].modeId, brand[k].primitiveModeId,
                       IF k = "light" THEN S_light ELSE S_dark)]

RECURSIVE WithBrandsAlone(_, _, _)
WithBrandsAlone(token, v, brands) ==
  IF brands = <<>> THEN token
  ELSE WithBrandsAlone(WithBrand(token, Head(brands).name,
                                 resolveBrandColorsAlone(v, Head(brands))),
                       v, Tail(brands))

\* the tree a run alone has built once it has gone through the variables ids
RECURSIVE processVariablesAlone(_, _, _)
processVariablesAlone(ids, brands, root) ==
  IF ids = <<>> THEN root
  ELSE LET variable == variables[Head(ids)]
           path == parseVariablePath(variable.name)
           token == WithBrandsAlone(Token(path.filename, variable.name, <<>>),
                                    variable.id, brands)
       IN  processVariablesAlone(Tail(ids), brands,
             IF variable.resolvedType # "COLOR" THEN root
             ELSE insertTokenIntoTree(root, path.folders, token))

\* the tokens of the document a run with configuration cfg emits alone
TokensAlone(cfg) ==
  sortTokensAlphabetically(
    processVariablesAlone(FilterByCollection(localOrder, cfg.tokenCollectionId),
                          cfg.brands, <<>>))

CollectionsExist(cfg) ==
  cfg.tokenCollectionId \in CollectionIds /\ cfg.primitiveCollectionId \in CollectionIds

Documents == SelectSeq(posted, LAMBDA msg : msg.type = "download-json")

\* the configurations of the runs that have come to their end without error
Emitted(runs) ==
  SelectSeq(runs, LAMBDA run : run.epc = "done" /\ CollectionsExist(run.config))

\* the run has in its tree what it alone would have put there so far
OwnTree(run) ==
  run.rootArray =
    IF run.epc \in {"idle", "collections", "variables"}
         \/ (run.epc = "done" /\ ~CollectionsExist(run.config))
      THEN <<>>
      ELSE processVariablesAlone(SubSeq(run.tokenVars, 1, run.varIdx - 1),
                                 run.config.brands, <<>>)

\* both requests have been made
BothRequested == epc # "idle" /\ parked.epc # "idle"

\* the documents are, in one order or the other, those the runs emit alone
DocumentsAsAlone(docs, runs) ==
  /\ Len(docs) = Len(runs)
  /\ Len(docs) = 1 => docs[1].data.tokens = TokensAlone(runs[1].config)
  /\ Len(docs) = 2 =>
       \/ /\ docs[1].data.tokens = TokensAlone(runs[1].config)
          /\ docs[2].data.tokens = TokensAlone(runs[2].config)
       \/ /\ docs[1].data.tokens = TokensAlone(runs[2].config)
          /\ docs[2].data.tokens = TokensAlone(runs[1].config)

\* C12 as stated: with two export requests in flight, each run writes to its
\* own tree only, each run that has ended has emitted exactly one
\* download-json document, and the tokens of each document are those the run
\* emits alone with its configuration.
C12_EveryRunEmitsOne ==
  BothRequested =>
    /\ OwnTree(ThisRun) /\ OwnTree(parked)
    /\ DocumentsAsAlone(Documents,
         SelectSeq(<<ThisRun, parked>>, LAMBDA run : run.epc = "done"))

\* C12, amended: with two export requests in flight, each run writes to its own
\* tree only, each run that has ended with both its collections found has
\* emitted exactly one download-json document and a run that has ended with
\* the error none, and the tokens of each document are those the run emits
\* alone with its configuration.
C12_RunsDoNotInterfere ==
  BothRequested =>
    /\ OwnTree(ThisRun) /\ OwnTree(parked)
    /\ DocumentsAsAlone(Documents, Emitted(<<ThisRun, parked>>))

\* two runs of different configurations, the second requested after the first
\* and ended before it, each with the document it emits alone
C12_Witness ==
  /\ epc = "done" /\ parked.epc = "done"
  /\ config.tokenCollectionId = "c1" /\ config.primitiveCollectionId = "c2"
  /\ parked.config.tokenCollectionId = "c1" /\ parked.config.primitiveCollectionId = "c2"
  /\ config.brands # parked.config.brands
  /\ config.lang = "" /\ parked.config.lang = "fr"
  /\ [i \in 1..Len(notifications) |-> <<notifications[i].key, notifications[i].lang>>]
       = << <<"analyzing", "en">>, <<"analyzing", "fr">>,
            <<"exportFinished", "fr">>, <<"exportFinished", "en">> >>
  /\ Len(Documents) = 2
  /\ Documents[1].data.tokens = TokensAlone(parked.config)
  /\ Documents[2].data.tokens = TokensAlone(config)
  /\ Documents[1].data.tokens # Documents[2].data.tokens

----------------------------------------------------------------------------
(* Termination of resolveColor, checked under SpecChain *)

\* the variables the activation f and the activations nested in it
\* dereference, in order, cut after n of them
RECURSIVE Followed(_, _)
Followed(f, n) ==
  LET value == ValueAt(variables[f.variable], f.modeId)
  IN  IF n = 0 \/ ~isVariableAlias(value) \/ value.id \notin DOMAIN variables
        THEN <<>>
        ELSE LET p == variables[value.id]
                 mm == findMatchingMode(p, f.brandModeType)
                 reenters ==
                   /\ resolveVariableValue(p, f.primitiveModeId, <<>>) = <<>>
                   /\ f.brandModeType # <<>>
                   /\ mm # <<>>
                   /\ isVariableAlias(ValueAt(p, mm[1].modeId))
             IN  <<p.id>> \o
                 (IF reenters
                    THEN Followed(Frame(p.id, mm[1].modeId, mm[1].modeId,
                                        f.brandModeType), n - 1)
                    ELSE <<>>)

NumVariables == Cardinality(DOMAIN variables)

\* the chain of aliases the call follows never comes to a variable twice
NoRevisit ==
  LET chain == Followed(call, NumVariables + 1)
  IN  \A i, j \in 1..Len(chain) : i # j => chain[i] # chain[j]

IsColorResult(r) ==
  /\ DOMAIN r = {"hex", "primitiveName"}
  /\ Len(r.hex) \in {7, 9}
  /\ r.hex[1] = "#"
  /\ Len(r.primitiveName) > 0

NoCycleReachable == call.brandModeType = <<>> \/ NoRevisit

\* the model follows a call no further: the re-entry of ModeValue is the only
\* stretch guarded by more than pc, and it is held back at depth MaxDepth
HeldBack ==
  /\ pc = "mode"
  /\ resolveVariableValue(variables[primitiveVar], matchingMode[1].modeId,
                          matchingMode[1].modeName) = <<>>
  /\ isVariableAlias(ValueAt(variables[primitiveVar], matchingMode[1].modeId))
  /\ Len(stack) >= MaxDepth

Running == pc \in {"enter", "deref", "direct", "search", "mode", "fallback", "return"}

\* C13: resolveColor terminates with a ColorResult when no cycle is reachable.
\* Without brandModeType it never re-enters itself, dereferences at most one
\* alias and is done within five stretches; with brandModeType and a chain of
\* aliases that never comes to a variable twice, it re-enters itself at most
\* as often as there are variables and runs at most seven stretches for each
\* activation; in both cases a call that is not done can run on, and a call
\* that is done holds a ColorResult.
C13_TerminatesWithoutCycle ==
  (call # NoFrame /\ NoCycleReachable) =>
    /\ call.brandModeType = <<>> =>
         /\ counts.reentries = 0
         /\ counts.derefs <= 1
         /\ stack = <<>>
         /\ counts.steps <= 5
    /\ counts.reentries <= NumVariables
    /\ counts.steps <= 7 * (counts.reentries + 1)
    /\ pc # "done" => Running /\ ~HeldBack
    /\ pc = "done" => result # <<>> /\ IsColorResult(result[1])

\* a chain through three variables: two re-entries, three dereferences
C13_Witness ==
  /\ pc = "done"
  /\ call.brandModeType = S_dark
  /\ NoRevisit
  /\ Followed(call, NumVariables + 1) = <<"B", "C", "A">>
  /\ counts.derefs = 3
  /\ counts.reentries = 2
  /\ IsColorResult(result[1])

====
